---- MODULE Spec2Model ----
(***************************************************************************)
(* Model of the fantasy-baseball hitter tools:                             *)
(*   yahoo_copy_paste_parser.py  (line parser, scaling, ranking, merging)  *)
(*   hitter_category_ranker.py   (z-scores, ranking)                       *)
(*                                                                         *)
(* Text is modelled as sequences of one-character strings, so that the     *)
(* regular expressions, the note-fragment removal and the case/whitespace  *)
(* normalisation are computed character by character.  Numbers are binary  *)
(* floating-point values <<m, e>> (value m * 2^e) with a Prec-bit mantissa *)
(* and round-to-nearest-even, the arithmetic of the program's float64 at a *)
(* reduced mantissa width; NaN is the missing marker.  Python indices are  *)
(* kept 0-based: At(s, i) is s[i].                                         *)
(***************************************************************************)
EXTENDS Integers, Sequences, FiniteSets, TLC

VARIABLES
    pc,              \* which operation has run
    raw_text,        \* parser input: the raw lines of the pasted text
    lines,           \* parser: the normalised lines
    parsed_records,  \* parser: the records returned
    parse_trace,     \* history: per returned record, the line indices it came from
    records,         \* scoring input: the cohort, a sequence of player records
    weights,         \* scoring input: the weights argument (NoWeights for None)
    z_scores,        \* scoring: per record, the z-score of every category
    weighted_total,  \* scoring: per record, the weighted z-score total
    scaled_scores,   \* scoring: per record, the total rescaled to 0..100
    ranked,          \* scoring: the rows returned, in their order
    existing_records,  \* merge input: the records already stored
    incoming_records,  \* merge input: the new batch
    merged_records,    \* merge: the records returned, the database written
    merges,            \* how many batches have been merged
    store,             \* store loader input: the file at the store's path
    loaded             \* store loader: what load_records_json returned

parse_vars == <<raw_text, lines, parsed_records, parse_trace>>
score_vars == <<records, weights, z_scores, weighted_total, scaled_scores, ranked>>
merge_vars == <<existing_records, incoming_records, merged_records, merges>>
store_vars == <<store, loaded>>
vars == <<pc, parse_vars, score_vars, merge_vars, store_vars>>

-----------------------------------------------------------------------------
(* Characters *)

Upper == {"A","B","C","D","E","F","G","H","I","J","K","L","M","N","O","P","Q","R","S","T","U","V","W","X","Y","Z"}
Lower == {"a","b","c","d","e","f","g","h","i","j","k","l","m","n","o","p","q","r","s","t","u","v","w","x","y","z"}
Digit == {"0","1","2","3","4","5","6","7","8","9"}
Letter == Upper \cup Lower
\* \s of the regular expressions and the characters str.strip() removes
Whitespace == {" ", "\t"}
\* \w of the regular expressions
WordChar == Letter \cup Digit \cup {"_"}
\* the byte-order mark U+FEFF, one character
BOM == "\\ufeff"

At(s, i) == s[i + 1]
None == -1
\* no file at the store's path
NoStore == [exists |-> FALSE, parses |-> FALSE, is_list |-> FALSE, items |-> <<>>]

Min(a, b) == IF a < b THEN a ELSE b
Max(a, b) == IF a > b THEN a ELSE b
Abs(n) == IF n < 0 THEN -n ELSE n
Sgn(n) == IF n < 0 THEN -1 ELSE IF n > 0 THEN 1 ELSE 0

-----------------------------------------------------------------------------
(* Floating point: <<m, e>> is m * 2^e with 2^(Prec-1) <= |m| < 2^Prec,    *)
(* <<0, 0>> is zero and <<0, 1>> is NaN.                                   *)

Prec == 5

NaN == <<0, 1>>
Zero == <<0, 0>>
IsNaN(x) == x[1] = 0 /\ x[2] # 0

RECURSIVE BitLen(_)
BitLen(a) == IF a = 0 THEN 0 ELSE 1 + BitLen(a \div 2)

\* The float nearest to M * 2^E, ties to the even mantissa.
RoundToPrec(M, E) ==
    IF M = 0 THEN Zero
    ELSE LET a == Abs(M)
             n == BitLen(a)
         IN  IF n <= Prec
             THEN <<Sgn(M) * a * 2^(Prec - n), E - (Prec - n)>>
             ELSE LET sh == n - Prec
                      q == a \div 2^sh
                      r == a % 2^sh
                      half == 2^(sh - 1)
                      q1 == IF r > half \/ (r = half /\ q % 2 = 1) THEN q + 1 ELSE q
                  IN  IF q1 = 2^Prec
                      THEN <<Sgn(M) * 2^(Prec - 1), E + sh + 1>>
                      ELSE <<Sgn(M) * q1, E + sh>>

\* The float nearest to (n / d) * 2^E, for integers n >= 0 and d > 0: the
\* quotient is taken with Prec+2 bits or more and a sticky bit for the rest.
RECURSIVE RoundRatio(_, _, _)
RoundRatio(n, d, E) ==
    IF n = 0 THEN Zero
    ELSE IF n < d * 2^(Prec + 1) THEN RoundRatio(2 * n, d, E - 1)
    ELSE RoundToPrec(2 * (n \div d) + (IF n % d = 0 THEN 0 ELSE 1), E - 1)

FromInt(n) == RoundToPrec(n, 0)

FNeg(x) == IF IsNaN(x) THEN NaN ELSE <<-x[1], x[2]>>
FAbs(x) == IF IsNaN(x) THEN NaN ELSE <<Abs(x[1]), x[2]>>

\* x + y.  When the exponents are more than Prec+2 apart the smaller operand
\* only decides the rounding direction.
FAdd(x, y) ==
    IF IsNaN(x) \/ IsNaN(y) THEN NaN
    ELSE IF x[1] = 0 THEN y
    ELSE IF y[1] = 0 THEN x
    ELSE LET big == IF x[2] >= y[2] THEN x ELSE y
             small == IF x[2] >= y[2] THEN y ELSE x
             d == big[2] - small[2]
         IN  IF d > Prec + 2
             THEN RoundToPrec(big[1] * 8 + Sgn(small[1]), big[2] - 3)
             ELSE RoundToPrec(big[1] * 2^d + small[1], small[2])

FSub(x, y) == FAdd(x, FNeg(y))

FMul(x, y) ==
    IF IsNaN(x) \/ IsNaN(y) THEN NaN
    ELSE RoundToPrec(x[1] * y[1], x[2] + y[2])

\* x / y; a zero divisor gives NaN (the program never divides a non-zero
\* value by zero: see safe_stds and the isclose guard).
FDiv(x, y) ==
    IF IsNaN(x) \/ IsNaN(y) \/ y[1] = 0 THEN NaN
    ELSE LET r == RoundRatio(Abs(x[1]), Abs(y[1]), x[2] - y[2])
         IN  IF Sgn(x[1]) = Sgn(y[1]) THEN r ELSE FNeg(r)

\* floor(sqrt(n)), one result bit at a time from bit b down
RECURSIVE ISqrtBits(_, _, _)
ISqrtBits(n, s, b) ==
    IF b = 0 THEN s
    ELSE IF (s + b) * (s + b) <= n THEN ISqrtBits(n, s + b, b \div 2)
    ELSE ISqrtBits(n, s, b \div 2)
ISqrt(n) == ISqrtBits(n, 0, 2^(Prec + 1))

FSqrt(x) ==
    IF IsNaN(x) \/ x[1] < 0 THEN NaN
    ELSE IF x[1] = 0 THEN Zero
    ELSE LET k == IF (x[2] - (Prec + 2)) % 2 = 0 THEN Prec + 2 ELSE Prec + 3
             R == x[1] * 2^k
             s == ISqrt(R)
         IN  RoundToPrec(2 * s + (IF s * s = R THEN 0 ELSE 1), ((x[2] - k) \div 2) - 1)

\* x < y, x <= y, x = y on floats (false when either is NaN)
FLt(x, y) ==
    /\ ~IsNaN(x) /\ ~IsNaN(y)
    /\ LET sx == Sgn(x[1])
           sy == Sgn(y[1])
       IN  IF sx # sy THEN sx < sy
           ELSE IF sx = 0 THEN FALSE
           ELSE IF sx > 0 THEN x[2] < y[2] \/ (x[2] = y[2] /\ x[1] < y[1])
           ELSE x[2] > y[2] \/ (x[2] = y[2] /\ x[1] < y[1])
FLe(x, y) == ~IsNaN(x) /\ ~IsNaN(y) /\ ~FLt(y, x)

-----------------------------------------------------------------------------
(* Strings *)

IsPrefix(p, s) == Len(p) <= Len(s) /\ SubSeq(s, 1, Len(p)) = p

\* s.replace(pat, ""): the occurrences of pat, left to right, removed
RECURSIVE Remove(_, _)
Remove(s, pat) ==
    IF Len(s) < Len(pat) THEN s
    ELSE IF IsPrefix(pat, s) THEN Remove(SubSeq(s, Len(pat) + 1, Len(s)), pat)
    ELSE <<Head(s)>> \o Remove(Tail(s), pat)

RECURSIVE LStrip(_)
LStrip(s) == IF s # <<>> /\ Head(s) \in Whitespace THEN LStrip(Tail(s)) ELSE s
RECURSIVE RStrip(_)
RStrip(s) ==
    IF s # <<>> /\ s[Len(s)] \in Whitespace THEN RStrip(SubSeq(s, 1, Len(s) - 1)) ELSE s
\* s.strip()
Strip(s) == RStrip(LStrip(s))

\* re.sub(r"\s{2,}", " ", s)
RECURSIVE CollapseSpaces(_)
CollapseSpaces(s) ==
    IF s = <<>> THEN <<>>
    ELSE IF Len(s) >= 2 /\ s[1] \in Whitespace /\ s[2] \in Whitespace
    THEN <<" ">> \o CollapseSpaces(LStrip(s))
    ELSE <<Head(s)>> \o CollapseSpaces(Tail(s))

\* the length of the longest run of characters of S in s from index i on
RECURSIVE RunLen(_, _, _)
RunLen(s, i, S) == IF i < Len(s) /\ At(s, i) \in S THEN 1 + RunLen(s, i + 1, S) ELSE 0

\* \b between s[p-1] and s[p]
IsWordAt(s, i) == i >= 0 /\ i < Len(s) /\ At(s, i) \in WordChar
WordBoundary(s, p) == IsWordAt(s, p - 1) # IsWordAt(s, p)

-----------------------------------------------------------------------------
(* Token classifier *)

PositionChar == Letter \cup Digit \cup {",", "/"}

NoMatch == [matched |-> FALSE, team |-> <<>>, position |-> <<>>]

\* TEAM_POSITION_PATTERN.match(s): ^[A-Z]{2,4}\s*-\s*[A-Za-z0-9,/]+\b, a match
\* of a prefix of s.  The team is the whole leading run of capitals (a shorter
\* one is followed by a capital, which neither \s* nor the hyphen accepts);
\* the position is the longest run of position characters that ends at a \b.
TEAM_POSITION_PATTERN(s) ==
    LET t == RunLen(s, 0, Upper)
        a == t + RunLen(s, t, Whitespace)
        b == a + 1 + RunLen(s, a + 1, Whitespace)
        n == RunLen(s, b, PositionChar)
        ends == {k \in 1..n : WordBoundary(s, b + k)}
    IN  IF t >= 2 /\ t <= 4 /\ a < Len(s) /\ At(s, a) = "-" /\ ends # {}
        THEN LET k == CHOOSE x \in ends : \A y \in ends : y <= x
             IN  [matched |-> TRUE, team |-> SubSeq(s, 1, t),
                  position |-> SubSeq(s, b + 1, b + k)]
        ELSE NoMatch

\* (?:\d+(?:\.\d+)?|\.\d+) matching all of t
UnsignedNumber(t) ==
    LET i == RunLen(t, 0, Digit)
    IN  \/ i >= 1 /\ i = Len(t)
        \/ /\ i < Len(t)
           /\ At(t, i) = "."
           /\ Len(t) - i - 1 >= 1
           /\ RunLen(t, i + 1, Digit) = Len(t) - i - 1

Unsigned(s) == IF s # <<>> /\ Head(s) \in {"+", "-"} THEN Tail(s) ELSE s

\* NUMBER_PATTERN.match(s) is not None
NUMBER_PATTERN(s) == UnsignedNumber(Unsigned(s))

\* H_AB_PATTERN.match(s) is not None
H_AB_PATTERN(s) ==
    \E k \in 1..Len(s) :
        /\ s[k] = "/"
        /\ NUMBER_PATTERN(SubSeq(s, 1, k - 1))
        /\ NUMBER_PATTERN(SubSeq(s, k + 1, Len(s)))

DigitValue(c) == CHOOSE d \in 0..9 : ToString(d) = c
RECURSIVE DigitsValue(_)
DigitsValue(ds) ==
    IF ds = <<>> THEN 0
    ELSE 10 * DigitsValue(SubSeq(ds, 1, Len(ds) - 1)) + DigitValue(ds[Len(ds)])

\* float(token) for a token NUMBER_PATTERN accepts: the nearest float
float(token) ==
    LET t == Unsigned(token)
        i == RunLen(t, 0, Digit)
        frac == IF i < Len(t) THEN SubSeq(t, i + 2, Len(t)) ELSE <<>>
        r == RoundRatio(DigitsValue(SubSeq(t, 1, i) \o frac), 10^Len(frac), 0)
    IN  IF Head(token) = "-" THEN FNeg(r) ELSE r

-----------------------------------------------------------------------------
(* Configuration *)

CATEGORIES == <<"R", "H", "2B", "3B", "HR", "RBI", "SB", "BB", "HBP", "K", "TB", "AVG", "SLG">>
CategorySet == {CATEGORIES[k] : k \in 1..Len(CATEGORIES)}
NEGATIVE_CATEGORIES == {"K"}

NOTE_MARKERS == <<
    <<"N","o"," ","n","e","w"," ","p","l","a","y","e","r"," ","N","o","t","e","s">>,
    <<"N","o"," ","n","e","w"," ","P","l","a","y","e","r"," ","N","o","t","e","s">>,
    <<"N","e","w"," ","P","l","a","y","e","r"," ","N","o","t","e">>,
    <<"P","l","a","y","e","r"," ","N","o","t","e">>,
    <<"N","o"," ","n","e","w"," ","p","l","a","y","e","r"," ","N","o","t","e">> >>

NON_NAME_VALUES == {
    <<"F","A">>, <<"D","T","D">>, <<"I","R">>, <<"I","L">>, <<"O","U","T">>, <<"O">>,
    <<"Q">>, <<"N","A">>, <<"R","a","n","k","i","n","g","s">>,
    <<"T","r","e","n","d","s">>, <<"B","a","t","t","e","r","s">> }

UnknownPlayer == <<"U","n","k","n","o","w","n"," ","P","l","a","y","e","r">>

\* (mutation: the nearest line first)
NAME_OFFSETS_nearest == <<1, 2, 3, 4>>

\* weights=None; a given mapping is [given |-> TRUE, map |-> the mapping]
NoWeights == [given |-> FALSE, map |-> <<>>]

\* WEIGHTS: 1.0 for every category
WEIGHTS == [c \in CategorySet |-> FromInt(1)]

\* the lookback offsets of _extract_player_name, in the order they are tried
NAME_OFFSETS == <<2, 1, 3, 4>>

\* the number of lines _find_h_ab_index scans
H_AB_SCAN == 25

-----------------------------------------------------------------------------
(* Record parser *)

RemoveChar(s, c) == SelectSeq(s, LAMBDA ch : ch # c)

\* _normalize_lines: the byte-order marks removed, each line stripped, the
\* empty lines dropped (raw_text is the text already split into lines)
_normalize_lines(raw) ==
    SelectSeq([k \in 1..Len(raw) |-> Strip(RemoveChar(raw[k], BOM))],
              LAMBDA l : l # <<>>)

RECURSIVE RemoveAll(_, _, _)
RemoveAll(s, markers, k) ==
    IF k > Len(markers) THEN s ELSE RemoveAll(Remove(s, markers[k]), markers, k + 1)

_clean_name(raw_name) ==
    Strip(CollapseSpaces(Remove(RemoveAll(raw_name, NOTE_MARKERS, 1), <<"D","T","D">>)))

_looks_like_name(candidate) ==
    IF candidate = <<>> THEN FALSE
    ELSE IF candidate \in NON_NAME_VALUES THEN FALSE
    ELSE IF TEAM_POSITION_PATTERN(candidate).matched THEN FALSE
    ELSE IF H_AB_PATTERN(candidate) THEN FALSE
    ELSE IF NUMBER_PATTERN(candidate) THEN FALSE
    ELSE IF candidate[Len(candidate)] = "%" THEN FALSE
    ELSE \E k \in 1..Len(candidate) : candidate[k] \in Letter

RECURSIVE ExtractFrom(_, _, _)
ExtractFrom(ls, team_line_index, k) ==
    IF k > Len(NAME_OFFSETS) THEN UnknownPlayer
    ELSE LET idx == team_line_index - NAME_OFFSETS[k]
         IN  IF idx < 0 THEN ExtractFrom(ls, team_line_index, k + 1)
             ELSE LET candidate == _clean_name(At(ls, idx))
                  IN  IF _looks_like_name(candidate) THEN candidate
                      ELSE ExtractFrom(ls, team_line_index, k + 1)

_extract_player_name(ls, team_line_index) == ExtractFrom(ls, team_line_index, 1)

RECURSIVE FindHAbFrom(_, _, _)
FindHAbFrom(ls, idx, max_scan) ==
    IF idx >= max_scan THEN None
    ELSE IF TEAM_POSITION_PATTERN(At(ls, idx)).matched THEN None
    ELSE IF H_AB_PATTERN(At(ls, idx)) THEN idx
    ELSE FindHAbFrom(ls, idx + 1, max_scan)

\* (mutation: a window one line longer)
_find_h_ab_index_wide(ls, start_index) ==
    FindHAbFrom(ls, start_index, Min(Len(ls), start_index + H_AB_SCAN + 1))

_find_h_ab_index(ls, start_index) ==
    FindHAbFrom(ls, start_index, Min(Len(ls), start_index + H_AB_SCAN))

\* The loop of _collect_category_values: the indices of the lines whose
\* numbers are collected, n of them being collected already.
RECURSIVE CollectFrom(_, _, _)
CollectFrom(ls, idx, n) ==
    IF ~(idx < Len(ls) /\ n < Len(CATEGORIES)) THEN <<>>
    ELSE IF TEAM_POSITION_PATTERN(At(ls, idx)).matched THEN <<>>
    ELSE IF NUMBER_PATTERN(At(ls, idx)) THEN <<idx>> \o CollectFrom(ls, idx + 1, n + 1)
    ELSE CollectFrom(ls, idx + 1, n)

\* (mutation: the collection ends at the first line that is no number)
RECURSIVE CollectRunFrom(_, _, _)
CollectRunFrom(ls, idx, n) ==
    IF ~(idx < Len(ls) /\ n < Len(CATEGORIES)) THEN <<>>
    ELSE IF NUMBER_PATTERN(At(ls, idx)) THEN <<idx>> \o CollectRunFrom(ls, idx + 1, n + 1)
    ELSE <<>>
_collect_category_indices_run(ls, start_index) == CollectRunFrom(ls, start_index, 0)

\* (mutation: the collection does not end at a marker line)
RECURSIVE CollectPastFrom(_, _, _)
CollectPastFrom(ls, idx, n) ==
    IF ~(idx < Len(ls) /\ n < Len(CATEGORIES)) THEN <<>>
    ELSE IF NUMBER_PATTERN(At(ls, idx)) THEN <<idx>> \o CollectPastFrom(ls, idx + 1, n + 1)
    ELSE CollectPastFrom(ls, idx + 1, n)
_collect_category_indices_past(ls, start_index) == CollectPastFrom(ls, start_index, 0)

_collect_category_indices(ls, start_index) == CollectFrom(ls, start_index, 0)

_collect_category_values(ls, start_index) ==
    LET at == _collect_category_indices(ls, start_index)
    IN  [k \in 1..Len(at) |-> float(At(ls, at[k]))]

\* One iteration of the loop of parse_yahoo_hitter_copy_paste: the records
\* (none or one) the line at idx adds, with the line indices used.
ParseLine(ls, idx) ==
    LET match == TEAM_POSITION_PATTERN(At(ls, idx))
        h_ab_idx == _find_h_ab_index(ls, idx + 1)
        category_values == _collect_category_values(ls, h_ab_idx + 1)
    IN  IF ~match.matched THEN <<>>
        ELSE IF h_ab_idx = None THEN <<>>
        ELSE IF ~H_AB_PATTERN(At(ls, h_ab_idx)) THEN <<>>
        ELSE << [record |->
                    [name |-> _extract_player_name(ls, idx),
                     team |-> match.team,
                     position |-> match.position,
                     stats |-> [c \in CategorySet |->
                                  LET k == CHOOSE j \in 1..Len(CATEGORIES) : CATEGORIES[j] = c
                                  IN  IF k <= Len(category_values)
                                      THEN category_values[k] ELSE NaN]],
                 marker |-> idx,
                 h_ab |-> h_ab_idx,
                 values_at |-> _collect_category_indices(ls, h_ab_idx + 1)] >>

RECURSIVE ParseFrom(_, _)
ParseFrom(ls, idx) ==
    IF idx >= Len(ls) THEN <<>> ELSE ParseLine(ls, idx) \o ParseFrom(ls, idx + 1)

\* parse_yahoo_hitter_copy_paste(raw_text)
parse_yahoo_hitter_copy_paste ==
    /\ pc = "text"
    /\ LET ls == _normalize_lines(raw_text)
           out == ParseFrom(ls, 0)
       IN  /\ lines' = ls
           /\ parsed_records' = [k \in 1..Len(out) |-> out[k].record]
           /\ parse_trace' = [k \in 1..Len(out) |->
                                [marker |-> out[k].marker, h_ab |-> out[k].h_ab,
                                 values_at |-> out[k].values_at]]
    /\ pc' = "parsed"
    /\ UNCHANGED <<store_vars, raw_text, score_vars, merge_vars>>

-----------------------------------------------------------------------------
(* Parser inputs *)

MaxLookback == 4
MaxSegments == 4

RECURSIVE SeqsUpTo(_, _)
\* the sequences over S of length n or less
SeqsUpTo(S, n) ==
    IF n = 0 THEN {<<>>}
    ELSE LET shorter == SeqsUpTo(S, n - 1)
         IN  shorter \cup {<<x>> \o t : x \in S, t \in {u \in shorter : Len(u) = n - 1}}

RECURSIVE Flatten(_)
Flatten(ss) == IF ss = <<>> THEN <<>> ELSE Head(ss) \o Flatten(Tail(ss))

RECURSIVE IntToChars(_)
IntToChars(k) ==
    IF k < 10 THEN <<ToString(k)>> ELSE IntToChars(k \div 10) \o <<ToString(k % 10)>>

MarkerLine == <<"N","Y","Y"," ","-"," ","O","F">>
RatioLine == <<"1","/","3">>
NumberLine == <<"0",".","5">>
PercentLine == <<"1","0","0","%">>

\* the lines that may stand before a marker line
HeaderLines == {
    <<"A","l"," ","B","o">>,
    <<" ","C","y"," "," ","D","o","P","l","a","y","e","r"," ","N","o","t","e">>,
    <<"N","o"," ","n","e","w"," ","p","l","a","y","e","r"," ","N","o","t","e","s">>,
    <<"x","%">>,
    <<"Q"," ","D","T","D">>,
    <<"(","1",")">>,
    <<"7">>,
    <<"S","F","-","1","B",",">> }

\* a header of MaxLookback lines or less, then a marker, a ratio and a number
NameInputs == {h \o <<MarkerLine, RatioLine, NumberLine>> : h \in SeqsUpTo(HeaderLines, MaxLookback)}

\* the pieces table rows are made of: single lines, a whole row, a blank line
\* with a byte-order mark, a run of numbers as long as the category list, a
\* run of other lines one short of the scan window
Segments == {
    <<MarkerLine>>,
    <<RatioLine>>,
    <<NumberLine>>,
    <<<<"F","A">>>>,
    <<<<"B","o">>, MarkerLine, RatioLine, PercentLine, <<"-",".","2","5">>>>,
    <<<<BOM, " ">>>>,
    [k \in 1..Len(CATEGORIES) |-> IntToChars(k)],
    [k \in 1..(H_AB_SCAN - 1) |-> PercentLine] }

RowInputs == {Flatten(ss) : ss \in SeqsUpTo(Segments, MaxSegments)}

ParseInputs == NameInputs \cup RowInputs

InitParse ==
    /\ pc = "text"
    /\ raw_text \in ParseInputs
    /\ lines = <<>>
    /\ parsed_records = <<>>
    /\ parse_trace = <<>>
    /\ records = <<>>
    /\ weights = NoWeights
    /\ z_scores = <<>>
    /\ weighted_total = <<>>
    /\ scaled_scores = <<>>
    /\ ranked = <<>>
    /\ existing_records = <<>>
    /\ incoming_records = <<>>
    /\ merged_records = <<>>
    /\ merges = 0
    /\ store = NoStore
    /\ loaded = <<>>

NextParse == parse_yahoo_hitter_copy_paste

SpecParse == InitParse /\ [][NextParse]_vars

-----------------------------------------------------------------------------
(* Stat normalizer: calculate_z_scores *)

\* ddof of category_frame.std
DDOF == 0

Column(recs, c) == [p \in 1..Len(recs) |-> recs[p].stats[c]]

\* the sum of the present values of col from index k on, added in order to acc
RECURSIVE NanSum(_, _, _)
NanSum(col, k, acc) ==
    IF k > Len(col) THEN acc
    ELSE NanSum(col, k + 1, IF IsNaN(col[k]) THEN acc ELSE FAdd(acc, col[k]))

Count(col) == Cardinality({k \in 1..Len(col) : ~IsNaN(col[k])})

\* Series.mean(skipna=True): NaN when no value is present
Mean(col) ==
    IF Count(col) = 0 THEN NaN ELSE FDiv(NanSum(col, 1, Zero), FromInt(Count(col)))

\* Series.std(skipna=True, ddof): the two-pass variance of the present
\* values, divided by count - ddof; NaN when count <= ddof
Std(col, ddof) ==
    LET count == Count(col)
        avg == FDiv(NanSum(col, 1, Zero), FromInt(count))
        sqr == [k \in 1..Len(col) |->
                   IF IsNaN(col[k]) THEN Zero
                   ELSE FMul(FSub(avg, col[k]), FSub(avg, col[k]))]
    IN  IF count <= ddof THEN NaN
        ELSE FSqrt(FDiv(NanSum(sqr, 1, Zero), FromInt(count - ddof)))

FillNa(x, v) == IF IsNaN(x) THEN v ELSE x

\* (mutation: a missing value is imputed as 0.0, not as the mean)
Centered_zero(x, mean) == FSub(FillNa(x, Zero), mean)

\* category_frame.fillna(means).sub(means)
Centered(x, mean) == FSub(FillNa(x, mean), mean)

\* (mutation: no category is inverted)
Inverted_none(c, z) == z

\* z_scores[category] = -1.0 * z_scores[category] for the negative categories
Inverted(c, z) == IF c \in NEGATIVE_CATEGORIES THEN FMul(FromInt(-1), z) ELSE z

\* calculate_z_scores(stats_df): per record, the z-score of every category
calculate_z_scores(recs) ==
    LET means == [c \in CategorySet |-> Mean(Column(recs, c))]
        stds == [c \in CategorySet |-> Std(Column(recs, c), DDOF)]
        safe_stds == [c \in CategorySet |-> IF stds[c] = Zero THEN NaN ELSE stds[c]]
    IN  [p \in 1..Len(recs) |->
            [c \in CategorySet |->
                Inverted(c, FillNa(FDiv(Centered(recs[p].stats[c], means[c]), safe_stds[c]),
                                   Zero))]]

-----------------------------------------------------------------------------
(* Scorer *)

Hundred == FromInt(100)
Fifty == FromInt(50)
\* the defaults of np.isclose
RTOL == FDiv(FromInt(1), FromInt(100000))
ATOL == FDiv(FromInt(1), FromInt(100000000))

\* _resolve_weights of yahoo_copy_paste_parser: the defaults, overridden by
\* the given weights of known categories
_resolve_weights(w) ==
    [c \in CategorySet |-> IF w.given /\ c \in DOMAIN w.map THEN w.map[c] ELSE WEIGHTS[c]]

\* _resolve_weights of hitter_category_ranker: weights.get(category, 1.0)
_resolve_weights_ranker(w) ==
    IF ~w.given THEN WEIGHTS
    ELSE [c \in CategorySet |-> IF c \in DOMAIN w.map THEN w.map[c] ELSE FromInt(1)]

\* weighted_total += z_scores[f"z_{category}"] * weights[category], category
\* k and those after it
RECURSIVE WeightedFrom(_, _, _, _)
WeightedFrom(z, w, k, acc) ==
    IF k > Len(CATEGORIES) THEN acc
    ELSE WeightedFrom(z, w, k + 1, FAdd(acc, FMul(z[CATEGORIES[k]], w[CATEGORIES[k]])))

WeightedTotal(zs, w) == [p \in 1..Len(zs) |-> WeightedFrom(zs[p], w, 1, Zero)]

\* Series.min(skipna=True) and Series.max(skipna=True): NaN when nothing is present
RECURSIVE NanMin(_, _, _)
NanMin(col, k, acc) ==
    IF k > Len(col) THEN acc
    ELSE NanMin(col, k + 1,
                IF IsNaN(col[k]) THEN acc
                ELSE IF IsNaN(acc) \/ FLt(col[k], acc) THEN col[k] ELSE acc)
RECURSIVE NanMax(_, _, _)
NanMax(col, k, acc) ==
    IF k > Len(col) THEN acc
    ELSE NanMax(col, k + 1,
                IF IsNaN(col[k]) THEN acc
                ELSE IF IsNaN(acc) \/ FLt(acc, col[k]) THEN col[k] ELSE acc)

\* (mutation: only equal scores count as close)
IsClose_exact(a, b) == a = b

\* np.isclose(a, b): abs(a - b) <= atol + rtol * abs(b)
IsClose(a, b) == FLe(FAbs(FSub(a, b)), FAdd(ATOL, FMul(RTOL, FAbs(b))))

_scale_scores_to_100(raw_scores) ==
    LET min_score == NanMin(raw_scores, 1, NaN)
        max_score == NanMax(raw_scores, 1, NaN)
    IN  IF IsNaN(min_score) \/ IsNaN(max_score)
        THEN [p \in 1..Len(raw_scores) |-> Fifty]
        ELSE IF IsClose(max_score, min_score)
        THEN [p \in 1..Len(raw_scores) |-> Fifty]
        ELSE [p \in 1..Len(raw_scores) |->
                 FMul(FDiv(FSub(raw_scores[p], min_score), FSub(max_score, min_score)),
                      Hundred)]

\* np.rint: the nearest integer, ties to even
Rint(x) ==
    IF IsNaN(x) \/ x[2] >= 0 THEN x
    ELSE IF -x[2] > Prec + 1 THEN Zero
    ELSE LET q == Abs(x[1]) \div 2^(-x[2])
             r == Abs(x[1]) % 2^(-x[2])
             half == 2^(-x[2] - 1)
             n == IF r > half \/ (r = half /\ q % 2 = 1) THEN q + 1 ELSE q
         IN  FromInt(Sgn(x[1]) * n)

\* Series.round(2): np.round multiplies by 100, rounds to an integer, divides
Round2(x) == FDiv(Rint(FMul(x, Hundred)), Hundred)

\* whether row y stays before row x when x is placed: descending scores, NaN last
StaysBefore(y, x) ==
    ~IsNaN(y.overall_score) /\ (IsNaN(x.overall_score) \/ ~FLt(y.overall_score, x.overall_score))

RECURSIVE InsertRow(_, _)
InsertRow(sorted, x) ==
    IF sorted = <<>> THEN <<x>>
    ELSE IF StaysBefore(Head(sorted), x) THEN <<Head(sorted)>> \o InsertRow(Tail(sorted), x)
    ELSE <<x>> \o sorted

RECURSIVE SortFrom(_, _, _)
SortFrom(rows, k, sorted) ==
    IF k > Len(rows) THEN sorted ELSE SortFrom(rows, k + 1, InsertRow(sorted, rows[k]))

Reverse(sq) == [k \in 1..Len(sq) |-> sq[Len(sq) + 1 - k]]

\* (mutation: an ascending stable sort, reversed: equal scores change places)
sort_values_reversed(rows) == SortFrom(Reverse(rows), 1, <<>>)

\* sort_values("overall_score", ascending=False, kind="mergesort"): stable,
\* a row goes behind the rows before it whose score is equal or greater
sort_values(rows) == SortFrom(rows, 1, <<>>)

\* the rows of the frame before sorting: row is the index of the record
Rows(recs, scores) ==
    [p \in 1..Len(recs) |-> [row |-> p, name |-> recs[p].name, overall_score |-> scores[p]]]

\* calculate_z_scores(stats_df) on the cohort
CalculateZScores ==
    /\ pc = "cohort"
    /\ z_scores' = calculate_z_scores(records)
    /\ pc' = "z_scores"
    /\ UNCHANGED <<store_vars, parse_vars, merge_vars, records, weights, weighted_total, scaled_scores, ranked>>

\* add_overall_scores(records, weights)
add_overall_scores ==
    /\ pc = "cohort"
    /\ IF records = <<>>
       THEN /\ ranked' = <<>>
            /\ UNCHANGED <<z_scores, weighted_total, scaled_scores>>
       ELSE /\ z_scores' = calculate_z_scores(records)
            /\ weighted_total' = WeightedTotal(z_scores', _resolve_weights(weights))
            /\ scaled_scores' = _scale_scores_to_100(weighted_total')
            /\ ranked' = sort_values(Rows(records,
                              [p \in 1..Len(records) |-> Round2(scaled_scores'[p])]))
    /\ pc' = "scored"
    /\ UNCHANGED <<store_vars, parse_vars, merge_vars, records, weights>>

\* score_and_rank_players(player_records, weights): no records is a ValueError
score_and_rank_players ==
    /\ pc = "cohort"
    /\ IF records = <<>>
       THEN /\ pc' = "ValueError"
            /\ UNCHANGED <<z_scores, weighted_total, ranked>>
       ELSE /\ z_scores' = calculate_z_scores(records)
            /\ weighted_total' = WeightedTotal(z_scores', _resolve_weights_ranker(weights))
            /\ ranked' = sort_values(Rows(records, weighted_total'))
            /\ pc' = "ranked"
    /\ UNCHANGED <<store_vars, parse_vars, merge_vars, records, weights, scaled_scores>>

\* _scale_scores_to_100(raw_scores) on a series of raw scores
ScaleScores ==
    /\ pc = "raw_scores"
    /\ scaled_scores' = _scale_scores_to_100(weighted_total)
    /\ pc' = "scaled"
    /\ UNCHANGED <<store_vars, parse_vars, merge_vars, records, weights, z_scores, weighted_total, ranked>>

-----------------------------------------------------------------------------
(* Scoring inputs *)

MaxPlayers == 3

One == FromInt(1)
Two == FromInt(2)
\* the float after 1.0, a value far above it, and a value v with 3v not a float
NextAfterOne == <<2^(Prec - 1) + 1, 1 - Prec>>
Large == <<2^(Prec - 1), 3>>
Thirteen == FromInt(13)
Tiny == <<2^(Prec - 1), -30 - Prec>>

\* what a player may have in the two categories that vary, <<HR, K>>
StatLines == {
    <<One, NextAfterOne>>, <<NextAfterOne, One>>, <<Large, Large>>, <<Thirteen, Thirteen>>,
    <<NaN, Two>>, <<Two, NaN>>, <<NaN, NaN>>, <<One, One>> }

PlayerNames == << <<"A","l">>, <<"B","o">>, <<"C","y">>, <<"D","o">>, <<"E","d">> >>

\* a record: AVG missing for everyone, the categories that do not vary at 2.0
PlayerRecord(p, line) ==
    [name |-> PlayerNames[p],
     stats |-> [c \in CategorySet |->
                  IF c = "HR" THEN line[1]
                  ELSE IF c = "K" THEN line[2]
                  ELSE IF c = "AVG" THEN NaN
                  ELSE Two]]

Cohorts ==
    {[p \in 1..Len(ls) |-> PlayerRecord(p, ls[p])] : ls \in SeqsUpTo(StatLines, MaxPlayers)}

WeightChoices == {
    NoWeights,
    [given |-> TRUE, map |-> [c \in CategorySet |-> Tiny]],
    [given |-> TRUE, map |-> [c \in {"K", "OPS"} |-> FromInt(3)]] }

InitScore ==
    /\ pc = "cohort"
    /\ records \in Cohorts
    /\ weights \in WeightChoices
    /\ z_scores = <<>>
    /\ weighted_total = <<>>
    /\ scaled_scores = <<>>
    /\ ranked = <<>>
    /\ raw_text = <<>>
    /\ lines = <<>>
    /\ parsed_records = <<>>
    /\ parse_trace = <<>>
    /\ existing_records = <<>>
    /\ incoming_records = <<>>
    /\ merged_records = <<>>
    /\ merges = 0
    /\ store = NoStore
    /\ loaded = <<>>

NextScore ==
    \/ CalculateZScores
    \/ add_overall_scores
    \/ score_and_rank_players

SpecScore == InitScore /\ [][NextScore]_vars

RawScoreValues == {NaN, Zero, Tiny, FNeg(Tiny), One, Two, FromInt(-3)}

InitScale ==
    /\ pc = "raw_scores"
    /\ weighted_total \in SeqsUpTo(RawScoreValues, MaxPlayers)
    /\ scaled_scores = <<>>
    /\ records = <<>>
    /\ weights = NoWeights
    /\ z_scores = <<>>
    /\ ranked = <<>>
    /\ raw_text = <<>>
    /\ lines = <<>>
    /\ parsed_records = <<>>
    /\ parse_trace = <<>>
    /\ existing_records = <<>>
    /\ incoming_records = <<>>
    /\ merged_records = <<>>
    /\ merges = 0
    /\ store = NoStore
    /\ loaded = <<>>

NextScale == ScaleScores

SpecScale == InitScale /\ [][NextScale]_vars

-----------------------------------------------------------------------------
(* Record merger: a record is a dict, a function from its keys to values *)

UpperSeq == <<"A","B","C","D","E","F","G","H","I","J","K","L","M","N","O","P","Q","R","S","T","U","V","W","X","Y","Z">>
LowerSeq == <<"a","b","c","d","e","f","g","h","i","j","k","l","m","n","o","p","q","r","s","t","u","v","w","x","y","z">>
LetterIndex(ch, alphabet) == CHOOSE k \in 1..Len(alphabet) : alphabet[k] = ch

\* str.upper() and str.lower()
str_upper(s) ==
    [i \in 1..Len(s) |-> IF s[i] \in Lower THEN UpperSeq[LetterIndex(s[i], LowerSeq)] ELSE s[i]]
str_lower(s) ==
    [i \in 1..Len(s) |-> IF s[i] \in Upper THEN LowerSeq[LetterIndex(s[i], UpperSeq)] ELSE s[i]]

\* record.get(key, default)
Get(record, key, default) == IF key \in DOMAIN record THEN record[key] ELSE default

NA == <<"N", "A">>
IdentityFields == {"name", "team", "position"}
DatabaseFields == IdentityFields \cup CategorySet

\* (mutation: the key is the name alone)
_player_identity_key_name_only(record) ==
    <<str_lower(Strip(Get(record, "name", <<>>))), <<>>, <<>>>>

_player_identity_key(record) ==
    <<str_lower(Strip(Get(record, "name", <<>>))),
      str_upper(Strip(Get(record, "team", <<>>))),
      str_upper(Strip(Get(record, "position", <<>>)))>>

\* pd.to_numeric(record.get(category), errors="coerce") as float or NaN: a
\* float is kept, an absent key (None) is NaN
to_numeric(record, category) == Get(record, category, NaN)

_sanitize_record_for_database(record) ==
    LET raw_name == RemoveChar(Get(record, "name", UnknownPlayer), BOM)
    IN  [f \in DatabaseFields |->
            IF f = "name" THEN Strip(raw_name)
            ELSE IF f = "team" THEN str_upper(Strip(Get(record, "team", NA)))
            ELSE IF f = "position" THEN str_upper(Strip(Get(record, "position", NA)))
            ELSE to_numeric(record, f)]

\* a dict in insertion order: a sequence of [key, value] items
HasKey(d, key) == \E i \in 1..Len(d) : d[i].key = key

\* (mutation: a key already present keeps its value)
DictSet_setdefault(d, key, value) ==
    IF HasKey(d, key) THEN d ELSE Append(d, [key |-> key, value |-> value])

\* d[key] = value: a key already present keeps its place and takes the value
DictSet(d, key, value) ==
    IF HasKey(d, key)
    THEN [i \in 1..Len(d) |-> IF d[i].key = key THEN [key |-> key, value |-> value] ELSE d[i]]
    ELSE Append(d, [key |-> key, value |-> value])

\* list(d.values())
DictValues(d) == [i \in 1..Len(d) |-> d[i].value]

\* for record in recs: merged[_player_identity_key(cleaned)] = cleaned, from
\* record k on
RECURSIVE MergeFrom(_, _, _)
MergeFrom(merged, recs, k) ==
    IF k > Len(recs) THEN merged
    ELSE LET cleaned == _sanitize_record_for_database(recs[k])
         IN  MergeFrom(DictSet(merged, _player_identity_key(cleaned), cleaned), recs, k + 1)

MergedRecords(existing, incoming) ==
    DictValues(MergeFrom(MergeFrom(<<>>, existing, 1), incoming, 1))

\* for item in payload: if isinstance(item, dict): records.append(sanitized),
\* from item k on
RECURSIVE LoadFrom(_, _, _)
LoadFrom(items, k, loaded_records) ==
    IF k > Len(items) THEN loaded_records
    ELSE LoadFrom(items, k + 1,
                  IF items[k].kind = "dict"
                  THEN Append(loaded_records, _sanitize_record_for_database(items[k].value))
                  ELSE loaded_records)

\* load_records_json(json_path): what it returns, or the exception json.loads
\* raises on a text that is no JSON
load_records_json(file) ==
    IF ~file.exists THEN [error |-> "none", records |-> <<>>]
    ELSE IF ~file.parses THEN [error |-> "JSONDecodeError", records |-> <<>>]
    ELSE IF ~file.is_list THEN [error |-> "none", records |-> <<>>]
    ELSE [error |-> "none", records |-> LoadFrom(file.items, 1, <<>>)]

\* write_records_json(records, output_path): the file holds the list of the
\* records (a NaN is written as null, which reads back as missing)
write_records_json(recs) ==
    [exists |-> TRUE, parses |-> TRUE, is_list |-> TRUE,
     items |-> [i \in 1..Len(recs) |-> [kind |-> "dict", value |-> recs[i]]]]

\* Merge inputs: records as callers and the store hold them, with their
\* names, teams and positions in other case, padded, marked or absent
MaxBatch == 2
MaxMerges == 2

\* a record as the store holds it: every database field, the categories
\* other than HR missing
StoredRecord(name, team, position, hr) ==
    [f \in DatabaseFields |->
        IF f = "name" THEN name
        ELSE IF f = "team" THEN team
        ELSE IF f = "position" THEN position
        ELSE IF f = "HR" THEN hr
        ELSE NaN]

RawRecords == {
    StoredRecord(<<"A","l">>, <<"N","Y","Y">>, <<"O","F">>, FromInt(1)),
    [name |-> <<" ","a","L"," ">>, team |-> <<"n","y","y"," ">>, position |-> <<"o","f">>,
     HR |-> FromInt(2)],
    [name |-> <<BOM,"A","l">>, team |-> <<"N","Y","Y">>, position |-> <<"O","F">>,
     overall_score |-> FromInt(50)],
    [name |-> <<"A","l">>, HR |-> FromInt(1)],
    [name |-> <<"A","l">>, team |-> <<"N","A">>, position |-> <<"\t","n","a">>, HR |-> FromInt(2)],
    [team |-> <<"N","Y","Y">>, position |-> <<"O","F">>, HR |-> NaN],
    StoredRecord(<<"B","o">>, <<"N","Y","Y">>, <<"O","F">>, FromInt(2)) }

\* merge_player_records(existing_records, incoming_records)
merge_player_records ==
    /\ pc = "merge"
    /\ \E incoming \in SeqsUpTo(RawRecords, MaxBatch) :
           /\ incoming_records' = incoming
           /\ merged_records' = MergedRecords(existing_records, incoming)
    /\ merges' = 1
    /\ pc' = "merged"
    /\ UNCHANGED <<store_vars, parse_vars, score_vars, existing_records>>

\* main with --update-db: the stored records are loaded, the new batch is
\* merged into them and the result is written back
main_update_db ==
    /\ pc = "merged"
    /\ merges < MaxMerges
    /\ \E incoming \in SeqsUpTo(RawRecords, MaxBatch) :
           /\ existing_records' = load_records_json(write_records_json(merged_records)).records
           /\ incoming_records' = incoming
           /\ merged_records' = MergedRecords(existing_records', incoming)
    /\ merges' = merges + 1
    /\ UNCHANGED <<store_vars, pc, parse_vars, score_vars>>

InitMerge ==
    /\ pc = "merge"
    /\ existing_records \in SeqsUpTo(RawRecords, MaxBatch)
    /\ incoming_records = <<>>
    /\ merged_records = <<>>
    /\ merges = 0
    /\ records = <<>>
    /\ weights = NoWeights
    /\ z_scores = <<>>
    /\ weighted_total = <<>>
    /\ scaled_scores = <<>>
    /\ ranked = <<>>
    /\ raw_text = <<>>
    /\ lines = <<>>
    /\ parsed_records = <<>>
    /\ parse_trace = <<>>
    /\ store = NoStore
    /\ loaded = <<>>

NextMerge ==
    \/ merge_player_records
    \/ main_update_db

SpecMerge == InitMerge /\ [][NextMerge]_vars

\* Store inputs: the file at the store's path is absent, holds a text that
\* is no JSON, a JSON value that is no list, or a list of items
MaxItems == 3

JsonItems ==
    {[kind |-> "number", value |-> <<>>], [kind |-> "string", value |-> <<>>]}
    \cup {[kind |-> "dict", value |-> r] : r \in {
             StoredRecord(<<"A","l">>, <<"N","Y","Y">>, <<"O","F">>, FromInt(1)),
             [name |-> <<" ","\t">>, team |-> <<"n","y","y">>, HR |-> FromInt(2)],
             [name |-> <<>>, position |-> <<"O","F">>],
             [team |-> <<"N","Y","Y">>, HR |-> NaN] }}

Stores ==
    {NoStore,
     [exists |-> TRUE, parses |-> FALSE, is_list |-> FALSE, items |-> <<>>],
     [exists |-> TRUE, parses |-> TRUE, is_list |-> FALSE, items |-> <<>>]}
    \cup {[exists |-> TRUE, parses |-> TRUE, is_list |-> TRUE, items |-> items] :
             items \in SeqsUpTo(JsonItems, MaxItems)}

\* a call of load_records_json on the store
LoadRecordsJson ==
    /\ pc = "store"
    /\ loaded' = load_records_json(store).records
    /\ pc' = IF load_records_json(store).error = "none" THEN "loaded" ELSE "JSONDecodeError"
    /\ UNCHANGED <<store, parse_vars, score_vars, merge_vars>>

InitLoad ==
    /\ pc = "store"
    /\ store \in Stores
    /\ loaded = <<>>
    /\ existing_records = <<>>
    /\ incoming_records = <<>>
    /\ merged_records = <<>>
    /\ merges = 0
    /\ records = <<>>
    /\ weights = NoWeights
    /\ z_scores = <<>>
    /\ weighted_total = <<>>
    /\ scaled_scores = <<>>
    /\ ranked = <<>>
    /\ raw_text = <<>>
    /\ lines = <<>>
    /\ parsed_records = <<>>
    /\ parse_trace = <<>>

NextLoad == LoadRecordsJson

SpecLoad == InitLoad /\ [][NextLoad]_vars

-----------------------------------------------------------------------------
(* Parser claims *)

IsMarker(i) == TEAM_POSITION_PATTERN(At(lines, i)).matched

\* the first marker line after line i, or the end of the input
NextMarker(i) ==
    LET later == {m \in (i + 1)..(Len(lines) - 1) : IsMarker(m)}
    IN  IF later = {} THEN Len(lines) ELSE CHOOSE m \in later : \A x \in later : m <= x

NameAcceptable(c) ==
    /\ c # <<>>
    /\ c \notin NON_NAME_VALUES
    /\ ~TEAM_POSITION_PATTERN(c).matched
    /\ ~H_AB_PATTERN(c)
    /\ ~NUMBER_PATTERN(c)
    /\ c[Len(c)] # "%"
    /\ \E k \in 1..Len(c) : c[k] \in Letter

NameCandidate(i, o) == _clean_name(At(lines, i - o))
NameOk(i, o) == i - o >= 0 /\ NameAcceptable(NameCandidate(i, o))

RatioReachable(i) ==
    \E j \in (i + 1)..Min(i + 25, Len(lines) - 1) :
        /\ H_AB_PATTERN(At(lines, j))
        /\ \A m \in (i + 1)..(j - 1) : ~IsMarker(m)

\* C2: a marker line yields exactly one record when a ratio line follows it
\* within 25 lines with no marker line between, and no record otherwise;
\* records come from marker lines only and appear in marker order.
C2_RecordIffRatioReachable ==
    pc = "parsed" =>
        /\ \A i \in 0..(Len(lines) - 1) :
               IsMarker(i) =>
                   Cardinality({k \in 1..Len(parse_trace) : parse_trace[k].marker = i})
                       = IF RatioReachable(i) THEN 1 ELSE 0
        /\ \A k \in 1..Len(parse_trace) :
               /\ parse_trace[k].marker \in 0..(Len(lines) - 1)
               /\ IsMarker(parse_trace[k].marker)
        /\ \A k, l \in 1..Len(parse_trace) :
               k < l => parse_trace[k].marker < parse_trace[l].marker
        /\ Len(parsed_records) = Len(parse_trace)

\* C2 witness: one record found with its ratio on the last line of the
\* window, and another marker line that yields no record.
C2_Witness ==
    /\ pc = "parsed"
    /\ \E k \in 1..Len(parse_trace) : parse_trace[k].h_ab = parse_trace[k].marker + 25
    /\ \E i \in 0..(Len(lines) - 1) :
           IsMarker(i) /\ \A k \in 1..Len(parse_trace) : parse_trace[k].marker # i

\* the number lines between the ratio line j and the next marker line
NumbersAfter(j) == {n \in (j + 1)..(NextMarker(j) - 1) : NUMBER_PATTERN(At(lines, n))}

\* C3: the q-th category in the order R, H, 2B, 3B, HR, RBI, SB, BB, HBP, K,
\* TB, AVG, SLG holds the value of the q-th number line after the ratio line
\* and before the next marker line, and the missing marker when there are
\* fewer than q such lines; every record has exactly the 13 category keys.
C3_CategoryValues ==
    pc = "parsed" =>
        \A k \in 1..Len(parsed_records) :
            LET order == <<"R", "H", "2B", "3B", "HR", "RBI", "SB", "BB", "HBP", "K",
                           "TB", "AVG", "SLG">>
                nums == NumbersAfter(parse_trace[k].h_ab)
                nth(q) == {n \in nums : Cardinality({m \in nums : m <= n}) = q}
            IN  /\ DOMAIN parsed_records[k].stats = {order[q] : q \in 1..13}
                /\ \A q \in 1..13 :
                       IF nth(q) = {} THEN parsed_records[k].stats[order[q]] = NaN
                       ELSE \A n \in nth(q) :
                                parsed_records[k].stats[order[q]] = float(At(lines, n))

\* C3 witness: a record that ends at the next marker line with a value for
\* the first category, none for the last, and a line that is no number
\* between its ratio line and its first value.
C3_Witness ==
    /\ pc = "parsed"
    /\ \E k \in 1..Len(parsed_records) :
           /\ parsed_records[k].stats["R"] # NaN
           /\ parsed_records[k].stats["SLG"] = NaN
           /\ NextMarker(parse_trace[k].h_ab) < Len(lines)
           /\ ~NUMBER_PATTERN(At(lines, parse_trace[k].h_ab + 1))

\* C4: the lines whose numbers two different records carry are different
\* lines, and each lies strictly between the record's marker line and the
\* next marker line (or the end of the input).
C4_ValuesDisjoint ==
    pc = "parsed" =>
        /\ \A k \in 1..Len(parse_trace) :
               LET at == parse_trace[k].values_at
               IN  /\ \A q \in 1..Len(at) :
                          /\ parse_trace[k].marker < at[q]
                          /\ at[q] < NextMarker(parse_trace[k].marker)
                          /\ parsed_records[k].stats[CATEGORIES[q]] = float(At(lines, at[q]))
                   /\ \A q \in (Len(at) + 1)..Len(CATEGORIES) :
                          parsed_records[k].stats[CATEGORIES[q]] = NaN
        /\ \A k, l \in 1..Len(parse_trace) :
               k # l =>
                   {parse_trace[k].values_at[q] : q \in 1..Len(parse_trace[k].values_at)}
                   \cap {parse_trace[l].values_at[q] : q \in 1..Len(parse_trace[l].values_at)}
                       = {}

\* C4 witness: two records, each carrying at least one value.
C4_Witness ==
    /\ pc = "parsed"
    /\ \E k, l \in 1..Len(parse_trace) :
           k # l /\ parse_trace[k].values_at # <<>> /\ parse_trace[l].values_at # <<>>

-----------------------------------------------------------------------------
(* Stat normalizer claims *)

Normalized == pc \in {"z_scores", "scored", "ranked"}
Players == 1..Len(records)
Present(p, c) == ~IsNaN(records[p].stats[c])
PresentPlayers(c) == {p \in Players : Present(p, c)}

\* the present values of category c are all the same value (none and one included)
NoSpread(c) ==
    \A p, q \in PresentPlayers(c) : records[p].stats[c] = records[q].stats[c]

\* C5: for every category whose present values are all identical (a single
\* player and every value missing included) every player's standardized
\* value is exactly 0.0, for the negative category too.
C5_ZeroSpreadGivesZero ==
    Normalized =>
        \A c \in CategorySet :
            NoSpread(c) => \A p \in Players : z_scores[p][c] = Zero

\* the cohort without the records whose value for category c is missing
PresentOnly(c) == SelectSeq(records, LAMBDA r : ~IsNaN(r.stats[c]))
IndexAmongPresent(p, c) == Cardinality({q \in 1..p : Present(q, c)})

\* the weights the call that made the state resolved
ActiveWeights ==
    IF pc = "scored" THEN _resolve_weights(weights) ELSE _resolve_weights_ranker(weights)

\* the weighted total of player p over the categories p has a value for
RECURSIVE PresentTotal(_, _, _, _)
PresentTotal(p, w, k, acc) ==
    IF k > Len(CATEGORIES) THEN acc
    ELSE PresentTotal(p, w, k + 1,
                      IF Present(p, CATEGORIES[k])
                      THEN FAdd(acc, FMul(z_scores[p][CATEGORIES[k]], w[CATEGORIES[k]]))
                      ELSE acc)

\* C6: every standardized value is defined; where the raw value is missing it
\* is exactly 0.0 and the category adds nothing to the weighted total; the
\* values of the other players are those of the cohort without the players
\* missing the category, with the population standard deviation (values 1 and
\* 2 standardize to -1 and +1, inverted for K).
C6_MissingIsNeutral ==
    Normalized =>
        /\ \A p \in Players : DOMAIN z_scores[p] = CategorySet
        /\ \A p \in Players : \A c \in CategorySet :
               /\ ~IsNaN(z_scores[p][c])
               /\ ~Present(p, c) => z_scores[p][c] = Zero
               /\ Present(p, c) =>
                      z_scores[p][c]
                          = calculate_z_scores(PresentOnly(c))[IndexAmongPresent(p, c)][c]
        /\ \A c \in CategorySet : \A p, q \in PresentPlayers(c) :
               (/\ PresentPlayers(c) = {p, q}
                /\ records[p].stats[c] = One
                /\ records[q].stats[c] = Two)
               => /\ z_scores[p][c] = IF c \in NEGATIVE_CATEGORIES THEN One ELSE FNeg(One)
                  /\ z_scores[q][c] = IF c \in NEGATIVE_CATEGORIES THEN FNeg(One) ELSE One
        /\ pc \in {"scored", "ranked"} =>
               \A p \in Players : weighted_total[p] = PresentTotal(p, ActiveWeights, 1, Zero)

\* C6 witness: scored with given weights, a player missing HR next to two
\* players whose HR values 1 and 2 standardize to -1 and +1.
C6_Witness ==
    /\ pc = "scored"
    /\ weights.given
    /\ \E p, q, m \in Players :
           /\ ~Present(m, "HR")
           /\ z_scores[m]["HR"] = Zero
           /\ records[p].stats["HR"] = One /\ z_scores[p]["HR"] = FNeg(One)
           /\ records[q].stats["HR"] = Two /\ z_scores[q]["HR"] = One
           /\ weighted_total[m] # weighted_total[p]

\* C7 as stated: present raw values a > b in a category standardize to
\* z(a) < z(b) when the category is negative and to z(a) > z(b) otherwise.
C7_StrictOrder ==
    Normalized =>
        \A c \in CategorySet : \A p, q \in PresentPlayers(c) :
            FLt(records[q].stats[c], records[p].stats[c]) =>
                IF c \in NEGATIVE_CATEGORIES
                THEN FLt(z_scores[p][c], z_scores[q][c])
                ELSE FLt(z_scores[q][c], z_scores[p][c])

\* C7: present raw values a > b in a category never standardize in the
\* inverted order: z(a) <= z(b) when the category is negative, z(a) >= z(b)
\* otherwise (the two may coincide after rounding).
C7_OrderNeverInverted ==
    Normalized =>
        \A c \in CategorySet : \A p, q \in PresentPlayers(c) :
            FLt(records[q].stats[c], records[p].stats[c]) =>
                IF c \in NEGATIVE_CATEGORIES
                THEN FLe(z_scores[p][c], z_scores[q][c])
                ELSE FLe(z_scores[q][c], z_scores[p][c])

\* C7 witness: one player above another in both HR and K, standardized
\* strictly above in HR and strictly below in K.
C7_Witness ==
    /\ Normalized
    /\ \E p, q \in Players :
           /\ Present(p, "HR") /\ Present(q, "HR") /\ Present(p, "K") /\ Present(q, "K")
           /\ FLt(records[q].stats["HR"], records[p].stats["HR"])
           /\ FLt(records[q].stats["K"], records[p].stats["K"])
           /\ FLt(z_scores[q]["HR"], z_scores[p]["HR"])
           /\ FLt(z_scores[p]["K"], z_scores[q]["K"])

-----------------------------------------------------------------------------
(* Scorer claims *)

Scores == 1..Len(weighted_total)
PresentScores == {p \in Scores : ~IsNaN(weighted_total[p])}
IsMinScore(p) == \A q \in PresentScores : FLe(weighted_total[p], weighted_total[q])
IsMaxScore(p) == \A q \in PresentScores : FLe(weighted_total[q], weighted_total[p])

\* C8 as stated: with two distinct raw scores the minimum maps to 0.0, the
\* maximum to 100.0 and every other score into [0, 100]; with all raw scores
\* equal, none, or all missing, every rescaled score is 50.0.
C8_DistinctScoresSpanRange ==
    pc = "scaled" =>
        /\ Len(scaled_scores) = Len(weighted_total)
        /\ IF \E p, q \in PresentScores : weighted_total[p] # weighted_total[q]
           THEN \A p \in PresentScores :
                    /\ IsMinScore(p) => scaled_scores[p] = Zero
                    /\ IsMaxScore(p) => scaled_scores[p] = Hundred
                    /\ FLe(Zero, scaled_scores[p]) /\ FLe(scaled_scores[p], Hundred)
           ELSE \A p \in Scores : scaled_scores[p] = Fifty

\* the maximum is within the tolerance of np.isclose of the minimum:
\* |max - min| <= 1e-8 + 1e-5 * |min|
WithinTolerance(max_score, min_score) ==
    FLe(FAbs(FSub(max_score, min_score)),
        FAdd(FDiv(One, FromInt(10^8)), FMul(FDiv(One, FromInt(10^5)), FAbs(min_score))))

\* C8: when the largest raw score is farther from the smallest than the
\* tolerance, the minimum maps to 0.0, the maximum to 100.0, every present
\* score into [0, 100] in the order of the raw scores, and a missing score
\* stays missing; otherwise (scores equal or within the tolerance, none, or
\* all missing) every rescaled score is 50.0.
C8_ScaleBeyondTolerance ==
    pc = "scaled" =>
        /\ Len(scaled_scores) = Len(weighted_total)
        /\ IF \E p, q \in PresentScores :
                  /\ IsMaxScore(p) /\ IsMinScore(q)
                  /\ ~WithinTolerance(weighted_total[p], weighted_total[q])
           THEN /\ \A p \in PresentScores :
                       /\ IsMinScore(p) => scaled_scores[p] = Zero
                       /\ IsMaxScore(p) => scaled_scores[p] = Hundred
                       /\ FLe(Zero, scaled_scores[p]) /\ FLe(scaled_scores[p], Hundred)
                /\ \A p, q \in PresentScores :
                       FLe(weighted_total[p], weighted_total[q])
                           => FLe(scaled_scores[p], scaled_scores[q])
                /\ \A p \in Scores \ PresentScores : IsNaN(scaled_scores[p])
           ELSE \A p \in Scores : scaled_scores[p] = Fifty

\* C8 witness: three raw scores rescaled to 0.0, 100.0 and a value strictly
\* between them.
C8_Witness ==
    /\ pc = "scaled"
    /\ \E p, q, m \in PresentScores :
           /\ scaled_scores[p] = Zero
           /\ scaled_scores[q] = Hundred
           /\ FLt(Zero, scaled_scores[m]) /\ FLt(scaled_scores[m], Hundred)

\* the score add_overall_scores and score_and_rank_players rank record p by
FinalScore(p) == IF pc = "scored" THEN Round2(scaled_scores[p]) ELSE weighted_total[p]
SameScore(a, b) == ~FLt(a, b) /\ ~FLt(b, a)

\* C9: the ranked output holds every record of the cohort exactly once with
\* its final score, no row has a greater score than a row before it, and
\* rows with equal scores are in the order of the cohort.
C9_StableRanking ==
    pc \in {"scored", "ranked"} =>
        /\ Len(ranked) = Len(records)
        /\ {ranked[k].row : k \in 1..Len(ranked)} = Players
        /\ \A k \in 1..Len(ranked) :
               /\ ranked[k].name = records[ranked[k].row].name
               /\ ranked[k].overall_score = FinalScore(ranked[k].row)
        /\ \A k, l \in 1..Len(ranked) :
               k < l =>
                   /\ ~FLt(ranked[k].overall_score, ranked[l].overall_score)
                   /\ SameScore(ranked[k].overall_score, ranked[l].overall_score)
                          => ranked[k].row < ranked[l].row

\* C9 witness: a ranking by add_overall_scores that puts a later record of
\* the cohort first and keeps two records of equal score in cohort order.
C9_Witness ==
    /\ pc = "scored"
    /\ \E k, l, m \in 1..Len(ranked) :
           /\ k < l /\ l < m
           /\ ranked[k].row > ranked[l].row
           /\ SameScore(ranked[l].overall_score, ranked[m].overall_score)
           /\ ranked[l].row < ranked[m].row
           /\ FLt(ranked[l].overall_score, ranked[k].overall_score)

-----------------------------------------------------------------------------
(* Record merger claims *)

\* existing, then incoming
MergeInput == existing_records \o incoming_records
Canonical(i) == _sanitize_record_for_database(MergeInput[i])
\* the identity key of a canonical record: its name trimmed and lowercased,
\* its team and position trimmed and uppercased
KeyOf(r) == <<str_lower(Strip(r["name"])), str_upper(Strip(r["team"])),
              str_upper(Strip(r["position"]))>>
Occurrences(key) == {i \in 1..Len(MergeInput) : KeyOf(Canonical(i)) = key}
FirstOccurrence(key) == CHOOSE i \in Occurrences(key) : \A j \in Occurrences(key) : i <= j
LastOccurrence(key) == CHOOSE i \in Occurrences(key) : \A j \in Occurrences(key) : j <= i

\* C10: the merge returns exactly one record for each identity key of the
\* canonical records of existing-then-incoming and no other record, in the
\* order of the first occurrence of the keys, each record being whole the
\* canonical form of the last record with its key; a returned record is its
\* own canonical form, so a later merge into the database finds every key
\* again, and no two database records share a key.
C10_MergeByIdentity ==
    pc = "merged" =>
        /\ \A i \in 1..Len(MergeInput) :
               Cardinality({k \in 1..Len(merged_records) :
                               KeyOf(merged_records[k]) = KeyOf(Canonical(i))}) = 1
        /\ \A k \in 1..Len(merged_records) :
               /\ Occurrences(KeyOf(merged_records[k])) # {}
               /\ merged_records[k] = Canonical(LastOccurrence(KeyOf(merged_records[k])))
               /\ _sanitize_record_for_database(merged_records[k]) = merged_records[k]
        /\ \A k, l \in 1..Len(merged_records) :
               k < l => /\ KeyOf(merged_records[k]) # KeyOf(merged_records[l])
                        /\ FirstOccurrence(KeyOf(merged_records[k]))
                               < FirstOccurrence(KeyOf(merged_records[l]))
        /\ \A i \in 1..Len(existing_records) :
               \E k \in 1..Len(merged_records) :
                   KeyOf(merged_records[k]) = KeyOf(Canonical(i))

\* C10 witness: a second batch merged into the database, where the key of
\* the first database record comes again in the batch with other content
\* after the batch brought a new key, and the first record took that content.
C10_Witness ==
    /\ pc = "merged"
    /\ merges = 2
    /\ Len(existing_records) = 2
    /\ Len(merged_records) = 3
    /\ KeyOf(merged_records[1]) = KeyOf(existing_records[1])
    /\ merged_records[1] # existing_records[1]
    /\ merged_records[2] = existing_records[2]
    /\ merged_records[1] = _sanitize_record_for_database(incoming_records[2])
    /\ merged_records[3] = _sanitize_record_for_database(incoming_records[1])

\* the records of X have pairwise different identity keys and are their own
\* canonical forms
IsDatabase(X) ==
    /\ \A i \in 1..Len(X) : DOMAIN X[i] = DatabaseFields
    /\ \A i \in 1..Len(X) : _sanitize_record_for_database(X[i]) = X[i]
    /\ \A i, j \in 1..Len(X) : i < j => KeyOf(X[i]) # KeyOf(X[j])
SelfMerged == pc = "merged" /\ incoming_records = existing_records
KeysOfInput == {KeyOf(Canonical(i)) : i \in 1..Len(existing_records)}

\* C11 as stated: merging any collection X with itself returns the records
\* of X (in their canonical form, so equal in content), each identity key
\* once.
C11_SelfMergeReturnsInput ==
    SelfMerged =>
        /\ merged_records = [i \in 1..Len(existing_records) |-> Canonical(i)]
        /\ \A k, l \in 1..Len(merged_records) :
               k < l => KeyOf(merged_records[k]) # KeyOf(merged_records[l])

\* C11: merging a collection X with itself returns one record for each
\* identity key of X, the canonical form of the last record of X with that
\* key, in the order the keys first occur in X; it returns X itself when the
\* records of X are canonical and have pairwise different keys.
C11_SelfMergeCanonicalOncePerKey ==
    SelfMerged =>
        /\ Len(merged_records) = Cardinality(KeysOfInput)
        /\ \A k, l \in 1..Len(merged_records) :
               k < l => KeyOf(merged_records[k]) # KeyOf(merged_records[l])
        /\ \A k \in 1..Len(merged_records) :
               LET same == {i \in 1..Len(existing_records) :
                               KeyOf(Canonical(i)) = KeyOf(merged_records[k])}
               IN  /\ same # {}
                   /\ \A i \in same :
                          (\A j \in same : j <= i) => merged_records[k] = Canonical(i)
                   /\ \A l \in 1..Len(merged_records) :
                          k < l => \E i \in same :
                                       \A j \in 1..Len(existing_records) :
                                           KeyOf(Canonical(j)) = KeyOf(merged_records[l])
                                               => i < j
        /\ IsDatabase(existing_records) => merged_records = existing_records

\* C11 witness: a collection of two canonical records with different keys
\* merged with itself, returned as it was.
C11_Witness ==
    /\ SelfMerged
    /\ Len(existing_records) = 2
    /\ IsDatabase(existing_records)
    /\ merged_records = existing_records

-----------------------------------------------------------------------------
(* Error handling claims *)

\* C12: a scoring entry point called with no records ends in a validation
\* error, never in a result.
C12_EmptyCohortIsAnError ==
    (records = <<>> /\ pc \in {"scored", "ranked", "ValueError"}) => pc = "ValueError"

\* the records among the items of the store, in their order
RecordItems == SelectSeq(store.items, LAMBDA item : item.kind = "dict")

\* C13: loading the store never fails: a store that does not exist, holds no
\* JSON or holds a JSON value that is no list loads as the empty collection,
\* and a list loads as its records, the other items skipped.
C13_LoadNeverFails ==
    pc \in {"loaded", "JSONDecodeError"} =>
        /\ pc = "loaded"
        /\ IF store.exists /\ store.parses /\ store.is_list
           THEN /\ Len(loaded) = Len(RecordItems)
                /\ \A k \in 1..Len(loaded) :
                       loaded[k] = _sanitize_record_for_database(RecordItems[k].value)
           ELSE loaded = <<>>

\* the name of an input record is absent, empty or only whitespace
NameUnavailable(record) ==
    "name" \notin DOMAIN record \/ Strip(RemoveChar(record["name"], BOM)) = <<>>

\* C14: every record the parser emits and every record the store loader
\* canonicalizes has a non-empty name, the sentinel "Unknown Player" when the
\* input record has no name, an empty one or one of whitespace only.
C14_NameNeverEmpty ==
    /\ pc = "parsed" => \A k \in 1..Len(parsed_records) : parsed_records[k].name # <<>>
    /\ pc = "loaded" =>
           \A k \in 1..Len(loaded) :
               /\ loaded[k]["name"] # <<>>
               /\ NameUnavailable(RecordItems[k].value) => loaded[k]["name"] = UnknownPlayer

====
